---- MODULE Spec2Model ----
(***************************************************************************)
(* A model of the two command-line programs of the repository:             *)
(*   open-webui/owui-chat.py  the gateway variant   (prog = "owui")        *)
(*   ollama-chat.py           the tracing variant   (prog = "ollama")      *)
(* Each run is one sequential pass through the script; pc is the position  *)
(* of the run, and the environment, the command line and the answers of    *)
(* the remote endpoint are the inputs.                                     *)
(***************************************************************************)
EXTENDS Integers, Sequences, FiniteSets, TLC

VARIABLES prog, env, argv, args, pc, out, exit_code, raised, requests,
          received, response_data, models, idx, start_time, end_time,
          tokens_per_second, spans, thrown, thrown_in, response

vars == <<prog, env, argv, args, pc, out, exit_code, raised, requests,
          received, response_data, models, idx, start_time, end_time,
          tokens_per_second, spans, thrown, thrown_in, response>>

\* ------------------------------------------------------------------ bounds
\* longest response text, in characters
MaxText == 3
\* longest 'data' array of a model listing
MaxModels == 2
\* clock readings are 0..MaxClock
MaxClock == 2

\* ------------------------------------------------------------------ values
\* Python's None: an unset environment variable, a flag that was not given
None == "<None>"

\* truthiness of an optional string: `not x` holds of None and of ""
Falsy(x) == x \in {None, ""}

\* what os.getenv can return for a variable: unset, set but empty, set
EnvValues == {None, "", "env"}
\* what a string flag can hold: not given, given empty, given
CliValues == {None, "", "cli"}

Chars == {"a", " "}
RECURSIVE TextsOfLen(_)
TextsOfLen(n) ==
    IF n = 0 THEN {<<>>}
    ELSE {Append(t, c) : t \in TextsOfLen(n - 1), c \in Chars}
Texts == UNION {TextsOfLen(n) : n \in 0..MaxText}

\* str.split() with no separator: the maximal runs of non-whitespace
RECURSIVE SplitFrom(_, _, _)
SplitFrom(s, i, word) ==
    IF i > Len(s)
    THEN IF word = <<>> THEN <<>> ELSE <<word>>
    ELSE IF s[i] = " "
         THEN IF word = <<>>
              THEN SplitFrom(s, i + 1, <<>>)
              ELSE <<word>> \o SplitFrom(s, i + 1, <<>>)
         ELSE SplitFrom(s, i + 1, Append(word, s[i]))
Split(s) == SplitFrom(s, 1, <<>>)

\* one printed line: its text, and the fields that vary
Line(l) == [line |-> l, id |-> "", label |-> "", text |-> <<>>]
ModelLine(i, lbl) == [line |-> "- {id} ({size})", id |-> i, label |-> lbl, text |-> <<>>]
TextLine(l, t) == [line |-> l, id |-> "", label |-> "", text |-> t]

\* ------------------------------------------------------- response payloads
\* A chat-completions body. Only choices[0] is ever read, so the array is
\* empty or has one element. shape tells how deep choices[0] goes:
\*   "no_message"  {}                      "no_content"  {"message": {}}
\*   "content"     {"message": {"content": content}}
Choices ==
    [shape : {"no_message", "no_content"}, content : {<<>>}]
      \cup [shape : {"content"}, content : Texts]
ChatPayloads ==
    {[has_choices |-> FALSE, choices |-> <<>>]}
      \cup {[has_choices |-> TRUE, choices |-> <<>>]}
      \cup {[has_choices |-> TRUE, choices |-> <<c>>] : c \in Choices}
NoPayload == [has_choices |-> FALSE, choices |-> <<>>]

\* A model descriptor. meta tells how deep the size metadata goes:
\*   "no_ollama"  {"id": id}      "no_details"  {"id": id, "ollama": {}}
\*   "no_parameter_size"  {"id": id, "ollama": {"details": {}}}
\*   otherwise meta is ollama.details.parameter_size itself
Ids == {"m1", "m2"}
Metas == {"no_ollama", "no_details", "no_parameter_size", "7B"}
Descriptors == [id : Ids, meta : Metas]
RECURSIVE DescriptorSeqs(_)
DescriptorSeqs(n) ==
    IF n = 0 THEN {<<>>}
    ELSE {Append(s, d) : s \in DescriptorSeqs(n - 1), d \in Descriptors}
ModelPayloads ==
    {[has_data |-> FALSE, data |-> <<>>]}
      \cup {[has_data |-> TRUE, data |-> s] :
              s \in UNION {DescriptorSeqs(n) : n \in 0..MaxModels}}
NoModels == [has_data |-> FALSE, data |-> <<>>]

\* the failures a transport call can raise
TransportErrors == {"ConnectionError"}

NoRate == [set |-> FALSE, num |-> 0, den |-> 1]

\* ------------------------------------------------------------------- spans
SpanNames == {"chat_with_model", "ollama.invoke"}
NewSpan == [state |-> "unopened", status |-> "UNSET", description |-> "", attrs |-> {}]

\* ------------------------------------------------------------------ inputs
OwuiEnv ==
    [JWT_TOKEN : EnvValues, BASE_URL : EnvValues, OTEL_EXPORTER_OTLP_ENDPOINT : {None},
     OLLAMA_BASE_URL : {None}, DEFAULT_MODEL : {None}]
OwuiArgv ==
    [model : CliValues, prompt : CliValues, debug : BOOLEAN, list_models : BOOLEAN,
     base_url : {None}]
NoArgs == [model |-> None, prompt |-> None, debug |-> FALSE, list_models |-> FALSE,
           base_url |-> None]

OwuiInit ==
    /\ prog = "owui"
    /\ env \in OwuiEnv
    /\ argv \in OwuiArgv
    /\ pc = "parse_args"

CommonInit ==
    /\ args = NoArgs
    /\ out = <<>>
    /\ exit_code = 0
    /\ raised = "none"
    /\ requests = <<>>
    /\ received = 0
    /\ response_data = NoPayload
    /\ models = NoModels
    /\ idx = 1
    /\ start_time = 0
    /\ end_time = 0
    /\ tokens_per_second = NoRate
    /\ spans = [s \in SpanNames |-> NewSpan]
    /\ thrown = "none"
    /\ thrown_in = "none"
    /\ response = <<>>

\* the process ends: sys.exit(code), a return from main, or an exception that
\* nothing catches (the interpreter prints the traceback and exits with 1)
Exit(code) == pc' = "done" /\ exit_code' = code /\ raised' = "none"
Unhandled(e) == pc' = "done" /\ exit_code' = 1 /\ raised' = e

\* control passes to position l of the script
Goto(l) == pc' = l /\ UNCHANGED <<exit_code, raised>>

inputVars == <<prog, env, argv>>
owuiVars == <<response_data, models, idx, start_time, end_time, tokens_per_second>>
ollamaVars == <<spans, thrown, thrown_in, response>>

\* ------------------------------------------------ owui-chat.py (gateway)
\* parse_args(): every flag is optional, so each combination of the four
\* flags parses; the namespace holds them as given
OwuiParseArgs ==
    /\ prog = "owui" /\ pc = "parse_args"
    /\ args' = argv
    /\ Goto("get_env_vars")
    /\ UNCHANGED <<inputVars, out, requests, received, owuiVars, ollamaVars>>

\* get_env_vars with the two tests in the other order
OwuiGetEnvVars_BaseUrlFirst ==
    /\ prog = "owui" /\ pc = "get_env_vars"
    /\ IF env.BASE_URL = None
       THEN /\ out' = Append(out, Line("Error: BASE_URL not found in .env file"))
            /\ Exit(1)
       ELSE IF env.JWT_TOKEN = None
       THEN /\ out' = Append(out, Line("Error: JWT_TOKEN not found in .env file"))
            /\ Exit(1)
       ELSE /\ out' = out
            /\ Goto("main")
    /\ UNCHANGED <<inputVars, args, requests, received, owuiVars, ollamaVars>>

\* get_env_vars(): both variables are read, JWT_TOKEN is tested first, and
\* the test is `is None`, so a variable set to "" passes
OwuiGetEnvVars ==
    /\ prog = "owui" /\ pc = "get_env_vars"
    /\ IF env.JWT_TOKEN = None
       THEN /\ out' = Append(out, Line("Error: JWT_TOKEN not found in .env file"))
            /\ Exit(1)
       ELSE IF env.BASE_URL = None
       THEN /\ out' = Append(out, Line("Error: BASE_URL not found in .env file"))
            /\ Exit(1)
       ELSE /\ out' = out
            /\ Goto("main")
    /\ UNCHANGED <<inputVars, args, requests, received, owuiVars, ollamaVars>>

\* list_models(): one GET; requests.get may raise, response.json() may raise
\* on a body that is not JSON; nothing in main catches either
OwuiListModels ==
    /\ prog = "owui" /\ pc = "main" /\ args.list_models
    /\ requests' = Append(requests, [method |-> "GET", path |-> "/api/models"])
    /\ \/ \E e \in TransportErrors :
            /\ Unhandled(e)
            /\ UNCHANGED <<received, models>>
       \/ /\ received' = received + 1
          /\ Unhandled("JSONDecodeError")
          /\ UNCHANGED models
       \/ \E m \in ModelPayloads :
            /\ received' = received + 1
            /\ models' = m
            /\ Goto("list_debug")
    /\ UNCHANGED <<inputVars, args, out, response_data, idx, start_time, end_time,
                   tokens_per_second, ollamaVars>>

\* main, list mode: the debug print of the payload
OwuiListDebug ==
    /\ prog = "owui" /\ pc = "list_debug"
    /\ out' = IF args.debug THEN Append(out, Line("Debug - Full response:")) ELSE out
    /\ Goto("list_loop")
    /\ UNCHANGED <<inputVars, args, requests, received, owuiVars, ollamaVars>>

\* model_info['ollama']['details'].get('parameter_size', 'unknown size'):
\* only the innermost lookup has a default
HasSizePath(d) == d.meta \notin {"no_ollama", "no_details"}
SizeLabel(d) == IF d.meta = "no_parameter_size" THEN "unknown size" ELSE d.meta

\* main, list mode: models['data'] and one turn of the for loop
OwuiListLoop ==
    /\ prog = "owui" /\ pc = "list_loop"
    /\ IF ~models.has_data
       THEN /\ Unhandled("KeyError")
            /\ UNCHANGED <<out, idx>>
       ELSE IF idx > Len(models.data)
       THEN /\ Exit(0)
            /\ UNCHANGED <<out, idx>>
       ELSE IF ~HasSizePath(models.data[idx])
       THEN /\ Unhandled("KeyError")
            /\ UNCHANGED <<out, idx>>
       ELSE /\ out' = Append(out, ModelLine(models.data[idx].id, SizeLabel(models.data[idx])))
            /\ idx' = idx + 1
            /\ Goto("list_loop")
    /\ UNCHANGED <<inputVars, args, requests, received, response_data, models,
                   start_time, end_time, tokens_per_second, ollamaVars>>

\* main without the validation of --model and --prompt
OwuiValidateArgs_NoCheck ==
    /\ prog = "owui" /\ pc = "main" /\ ~args.list_models
    /\ Goto("chat_with_model")
    /\ UNCHANGED <<inputVars, args, out, requests, received, owuiVars, ollamaVars>>

\* main, chat mode: parser.error prints the usage to stderr and exits with 2
OwuiValidateArgs ==
    /\ prog = "owui" /\ pc = "main" /\ ~args.list_models
    /\ IF Falsy(args.model) \/ Falsy(args.prompt)
       THEN Exit(2)
       ELSE Goto("chat_with_model")
    /\ UNCHANGED <<inputVars, args, out, requests, received, owuiVars, ollamaVars>>

\* response_data has a 'choices' key whose value is a non-empty list
HasChoices(p) == p.has_choices /\ p.choices # <<>>

\* the rate with the guard `duration != 0`
TokensPerSecond_NonZeroGuard(tokens, duration) ==
    IF duration # 0
    THEN [set |-> TRUE, num |-> tokens, den |-> duration]
    ELSE [set |-> TRUE, num |-> 0, den |-> 1]

\* tokens / duration if duration > 0 else 0, as the fraction num/den
TokensPerSecond(tokens, duration) ==
    IF duration > 0
    THEN [set |-> TRUE, num |-> tokens, den |-> duration]
    ELSE [set |-> TRUE, num |-> 0, den |-> 1]

\* chat_with_model(): two readings of the wall clock around one POST, the
\* rate and its print, or the error print; the payload is returned whatever
\* its shape. time.time() is not monotonic: end may lie before start.
OwuiChatWithModel ==
    /\ prog = "owui" /\ pc = "chat_with_model"
    /\ requests' = Append(requests, [method |-> "POST", path |-> "/api/chat/completions"])
    /\ \E st \in 0..MaxClock :
         /\ start_time' = st
         /\ \/ \E e \in TransportErrors :
                 /\ Unhandled(e)
                 /\ UNCHANGED <<received, end_time, response_data, tokens_per_second, out>>
            \/ \E en \in 0..MaxClock :
                 /\ end_time' = en
                 /\ received' = received + 1
                 /\ \/ /\ Unhandled("JSONDecodeError")
                       /\ UNCHANGED <<response_data, tokens_per_second, out>>
                    \/ \E p \in ChatPayloads :
                         /\ response_data' = p
                         /\ IF HasChoices(p)
                            THEN IF p.choices[1].shape # "content"
                                 THEN /\ Unhandled("KeyError")
                                      /\ UNCHANGED <<tokens_per_second, out>>
                                 ELSE /\ tokens_per_second' =
                                           TokensPerSecond(Len(Split(p.choices[1].content)),
                                                           en - st)
                                      /\ out' = Append(out, Line("Tokens per second:"))
                                      /\ Goto("main_debug")
                            ELSE /\ out' = Append(out, Line("Error: Unexpected response format"))
                                 /\ UNCHANGED tokens_per_second
                                 /\ Goto("main_debug")
    /\ UNCHANGED <<inputVars, args, models, idx, ollamaVars>>

\* main, chat mode: the debug print of the payload
OwuiMainDebug ==
    /\ prog = "owui" /\ pc = "main_debug"
    /\ out' = IF args.debug THEN Append(out, Line("Debug - Full response:")) ELSE out
    /\ Goto("check_choices")
    /\ UNCHANGED <<inputVars, args, requests, received, owuiVars, ollamaVars>>

\* main, chat mode: if not response.get('choices')
OwuiCheckChoices ==
    /\ prog = "owui" /\ pc = "check_choices"
    /\ IF ~HasChoices(response_data)
       THEN /\ out' = Append(out, Line("Error: Unexpected response format"))
            /\ Exit(1)
       ELSE /\ out' = out
            /\ Goto("print_content")
    /\ UNCHANGED <<inputVars, args, requests, received, owuiVars, ollamaVars>>

\* main, chat mode: the try block that prints the content, and its
\* except KeyError branch
OwuiPrintContent ==
    /\ prog = "owui" /\ pc = "print_content"
    /\ IF response_data.choices[1].shape = "content"
       THEN /\ out' = Append(out, TextLine("{content}", response_data.choices[1].content))
            /\ Exit(0)
       ELSE /\ out' = out \o (IF args.debug
                              THEN <<Line("Error: Unexpected response structure:"),
                                     Line("Response:")>>
                              ELSE <<Line("Error: Unexpected response structure:")>>)
            /\ Exit(1)
    /\ UNCHANGED <<inputVars, args, requests, received, owuiVars, ollamaVars>>

NextOwui ==
    \/ OwuiParseArgs
    \/ OwuiGetEnvVars
    \/ OwuiListModels
    \/ OwuiListDebug
    \/ OwuiListLoop
    \/ OwuiValidateArgs
    \/ OwuiChatWithModel
    \/ OwuiMainDebug
    \/ OwuiCheckChoices
    \/ OwuiPrintContent

\* ------------------------------------------------ ollama-chat.py (tracing)
OllamaEnv ==
    [JWT_TOKEN : {None}, BASE_URL : {None}, OTEL_EXPORTER_OTLP_ENDPOINT : EnvValues,
     OLLAMA_BASE_URL : EnvValues, DEFAULT_MODEL : EnvValues]
OllamaArgv ==
    [model : CliValues, prompt : CliValues, debug : {FALSE}, list_models : {FALSE},
     base_url : CliValues]

OllamaInit ==
    /\ prog = "ollama"
    /\ env \in OllamaEnv
    /\ argv \in OllamaArgv
    /\ pc = "module"

\* what constructing the client, and what llm.invoke, can raise
ClientErrors == {"ValidationError"}
InvokeErrors == {"ConnectionError", "ResponseError"}

\* the module body: the check of OTEL_EXPORTER_OTLP_ENDPOINT and the set-up of
\* the tracer, which run before the __main__ block
OllamaModuleInit ==
    /\ prog = "ollama" /\ pc = "module"
    /\ IF Falsy(env.OTEL_EXPORTER_OTLP_ENDPOINT)
       THEN Unhandled("ValueError: OTEL_EXPORTER_OTLP_ENDPOINT must be set in .env file")
       ELSE Goto("parse_args")
    /\ UNCHANGED <<inputVars, args, out, requests, received, owuiVars, ollamaVars>>

\* a default that wins over the flag whenever the environment sets it
ArgDefault_EnvFirst(cli, default) == IF default # None THEN default ELSE cli

\* add_argument(..., default=os.getenv(NAME)): the flag's value when the flag
\* is given, the environment's otherwise
ArgDefault(cli, default) == IF cli # None THEN cli ELSE default

\* parser.parse_args(): --prompt is required (argparse exits with 2 without
\* it); --base-url and --model default to the environment
OllamaParseArgs ==
    /\ prog = "ollama" /\ pc = "parse_args"
    /\ IF argv.prompt = None
       THEN /\ Exit(2)
            /\ UNCHANGED args
       ELSE /\ args' = [prompt |-> argv.prompt,
                        base_url |-> ArgDefault(argv.base_url, env.OLLAMA_BASE_URL),
                        model |-> ArgDefault(argv.model, env.DEFAULT_MODEL),
                        debug |-> FALSE, list_models |-> FALSE]
            /\ Goto("check_config")
    /\ UNCHANGED <<inputVars, out, requests, received, owuiVars, ollamaVars>>

\* if not args.base_url: raise ...; if not args.model: raise ...
OllamaCheckConfig ==
    /\ prog = "ollama" /\ pc = "check_config"
    /\ IF Falsy(args.base_url)
       THEN Unhandled("ValueError: Base URL is required in command line or .env file")
       ELSE IF Falsy(args.model)
       THEN Unhandled("ValueError: Model is required in command line or .env file")
       ELSE Goto("start_span")
    /\ UNCHANGED <<inputVars, args, out, requests, received, owuiVars, ollamaVars>>

\* span.set_status: a span that has ended ignores it
SetStatus(sp, code, msg) ==
    IF sp.state = "open" THEN [sp EXCEPT !.status = code, !.description = msg] ELSE sp
SetAttributes(sp, keys) ==
    IF sp.state = "open" THEN [sp EXCEPT !.attrs = @ \cup keys] ELSE sp
StartSpan(sp) == [sp EXCEPT !.state = "open"]
EndSpan(sp) == [sp EXCEPT !.state = "closed"]

\* chat_with_model: the outer with is entered and the three attributes set
OllamaStartSpan ==
    /\ prog = "ollama" /\ pc = "start_span"
    /\ spans' = [spans EXCEPT !["chat_with_model"] =
                    SetAttributes(StartSpan(@), {"prompt.text", "model.name", "base.url"})]
    /\ Goto("construct")
    /\ UNCHANGED <<inputVars, args, out, requests, received, owuiVars, thrown, thrown_in,
                   response>>

\* chat_with_model: OTelCallbackHandler(span) and OllamaLLM(...)
OllamaConstruct ==
    /\ prog = "ollama" /\ pc = "construct"
    /\ \/ \E e \in ClientErrors :
            /\ thrown' = e
            /\ thrown_in' = "construct"
            /\ Goto("except")
       \/ /\ UNCHANGED <<thrown, thrown_in>>
          /\ Goto("start_invoke_span")
    /\ UNCHANGED <<inputVars, args, out, requests, received, owuiVars, spans, response>>

\* chat_with_model: the inner with is entered
OllamaStartInvokeSpan ==
    /\ prog = "ollama" /\ pc = "start_invoke_span"
    /\ spans' = [spans EXCEPT !["ollama.invoke"] = StartSpan(@)]
    /\ Goto("invoke")
    /\ UNCHANGED <<inputVars, args, out, requests, received, owuiVars, thrown, thrown_in,
                   response>>

\* the attributes on_llm_end sets: llm.response, and the three counts when
\* the result carries a token_usage
OnLlmEnd(usage) ==
    {"llm.response"}
      \cup (IF usage
            THEN {"llm.total_tokens", "llm.prompt_tokens", "llm.completion_tokens"}
            ELSE {})

\* chat_with_model: llm.invoke(prompt), with the callbacks the library makes
\* (on_llm_start, and on_llm_end when the call succeeds), then response.length
OllamaInvoke ==
    /\ prog = "ollama" /\ pc = "invoke"
    /\ requests' = Append(requests, [method |-> "invoke", path |-> "llm"])
    /\ \/ \E e \in InvokeErrors :
            /\ thrown' = e
            /\ thrown_in' = "invoke"
            /\ spans' = [spans EXCEPT !["chat_with_model"] = SetAttributes(@, {"llm.prompts"})]
            /\ UNCHANGED <<received, response>>
       \/ \E r \in Texts, usage \in BOOLEAN :
            /\ response' = r
            /\ received' = received + 1
            /\ spans' = [spans EXCEPT
                           !["chat_with_model"] =
                               SetAttributes(@, {"llm.prompts"} \cup OnLlmEnd(usage)),
                           !["ollama.invoke"] = SetAttributes(@, {"response.length"})]
            /\ UNCHANGED <<thrown, thrown_in>>
    /\ Goto("exit_invoke_span")
    /\ UNCHANGED <<inputVars, args, out, owuiVars>>

\* chat_with_model: the inner with is left, by the return or by the exception
OllamaExitInvokeSpan ==
    /\ prog = "ollama" /\ pc = "exit_invoke_span"
    /\ spans' = [spans EXCEPT !["ollama.invoke"] = EndSpan(@)]
    /\ IF thrown # "none" THEN Goto("except") ELSE Goto("exit_span")
    /\ UNCHANGED <<inputVars, args, out, requests, received, owuiVars, thrown, thrown_in,
                   response>>

\* an except block that marks the span and does not re-raise
OllamaExcept_Swallow ==
    /\ prog = "ollama" /\ pc = "except"
    /\ spans' = [spans EXCEPT !["chat_with_model"] = SetStatus(@, "ERROR", thrown)]
    /\ thrown' = "none"
    /\ Goto("exit_span")
    /\ UNCHANGED <<inputVars, args, out, requests, received, owuiVars, thrown_in, response>>

\* chat_with_model: except Exception as e: span.set_status(ERROR, str(e)); raise
OllamaExcept ==
    /\ prog = "ollama" /\ pc = "except"
    /\ spans' = [spans EXCEPT !["chat_with_model"] = SetStatus(@, "ERROR", thrown)]
    /\ Goto("exit_span")
    /\ UNCHANGED <<inputVars, args, out, requests, received, owuiVars, thrown, thrown_in,
                   response>>

\* a span that is ended by hand after the call, so only when nothing raised
OllamaExitSpan_LeakOnError ==
    /\ prog = "ollama" /\ pc = "exit_span"
    /\ spans' = IF thrown # "none" THEN spans
                ELSE [spans EXCEPT !["chat_with_model"] = EndSpan(@)]
    /\ IF thrown # "none" THEN Unhandled(thrown) ELSE Goto("print_response")
    /\ UNCHANGED <<inputVars, args, out, requests, received, owuiVars, thrown, thrown_in,
                   response>>

\* chat_with_model: the outer with is left; an exception in flight goes on to
\* the caller, where nothing catches it
OllamaExitSpan ==
    /\ prog = "ollama" /\ pc = "exit_span"
    /\ spans' = [spans EXCEPT !["chat_with_model"] = EndSpan(@)]
    /\ IF thrown # "none" THEN Unhandled(thrown) ELSE Goto("print_response")
    /\ UNCHANGED <<inputVars, args, out, requests, received, owuiVars, thrown, thrown_in,
                   response>>

\* __main__: print(f"Response: {response}")
OllamaPrintResponse ==
    /\ prog = "ollama" /\ pc = "print_response"
    /\ out' = Append(out, TextLine("Response: {response}", response))
    /\ Exit(0)
    /\ UNCHANGED <<inputVars, args, requests, received, owuiVars, ollamaVars>>

NextOllama ==
    \/ OllamaModuleInit
    \/ OllamaParseArgs
    \/ OllamaCheckConfig
    \/ OllamaStartSpan
    \/ OllamaConstruct
    \/ OllamaStartInvokeSpan
    \/ OllamaInvoke
    \/ OllamaExitInvokeSpan
    \/ OllamaExcept
    \/ OllamaExitSpan
    \/ OllamaPrintResponse

\* ---------------------------------------------------------- specifications
Init == (OwuiInit \/ OllamaInit) /\ CommonInit
Next == NextOwui \/ NextOllama
Spec == Init /\ [][Next]_vars

\* the tracing variant alone. The script is sequential and blocks only in
\* llm.invoke, which returns or raises: a step that can be taken is taken
TracingInit == OllamaInit /\ CommonInit
OllamaSpec == TracingInit /\ [][NextOllama]_vars /\ WF_vars(NextOllama)

\* ================================================================ properties
OwuiRun == prog = "owui"
OllamaRun == prog = "ollama"
Done == pc = "done"

Printed(l) == \E i \in 1..Len(out) : out[i].line = l

\* the lines that report a response of the wrong shape
FormatErrors == {"Error: Unexpected response format", "Error: Unexpected response structure:"}

\* a body was received and parsed as JSON
GotJson == received = 1 /\ raised # "JSONDecodeError"

\* the chat body lacks a non-empty 'choices', or choices[0] lacks message.content
ChatMalformed ==
    \/ ~response_data.has_choices
    \/ response_data.choices = <<>>
    \/ response_data.choices[1].shape # "content"

\* the listing body lacks a non-empty 'data'
ListMalformed == ~models.has_data \/ models.data = <<>>

\* the setting as the command line and the environment give it, read off the
\* inputs: the flag when it was given, the environment's value otherwise
ResolvedBaseUrl == IF argv.base_url # None THEN argv.base_url ELSE env.OLLAMA_BASE_URL
ResolvedModel == IF argv.model # None THEN argv.model ELSE env.DEFAULT_MODEL

\* the tracing run got as far as the two checks of __main__
ReachedConfigCheck == ~Falsy(env.OTEL_EXPORTER_OTLP_ENDPOINT) /\ argv.prompt # None

BaseUrlRejected == raised = "ValueError: Base URL is required in command line or .env file"
ModelRejected == raised = "ValueError: Model is required in command line or .env file"

\* ------------------------------------------------------------------------ C1
\* C1: in the tracing variant every span that is opened is eventually closed,
\* whether llm.invoke returns, llm.invoke raises, or the construction of the
\* client raises; and no run has ended with a span still open.
C1_SpansClosed ==
    /\ \A s \in SpanNames : (spans[s].state = "open") ~> (spans[s].state = "closed")
    /\ [](Done => \A s \in SpanNames : spans[s].state # "open")

\* a run in which the construction raised: the outer span was opened and is
\* closed, the inner one was never opened
C1_Witness ==
    /\ OllamaRun /\ Done /\ thrown_in = "construct"
    /\ spans["chat_with_model"].state = "closed"
    /\ spans["ollama.invoke"].state = "unopened"

\* ------------------------------------------------------------------------ C2
\* C2: in the gateway variant a response JSON without a non-empty 'choices'
\* (chat mode, also when choices[0] lacks message or content) or without a
\* non-empty 'data' (list mode) ends the run through the program's own error
\* path: an error line is printed, the exit status is not 0, and no exception
\* is left unhandled.
C2_MalformedReported ==
    (OwuiRun /\ Done /\ GotJson /\ (IF args.list_models THEN ListMalformed ELSE ChatMalformed))
      => /\ exit_code # 0
         /\ raised = "none"
         /\ \E l \in FormatErrors : Printed(l)

\* ------------------------------------------------------------------------ C3
\* C3: in the gateway variant, when JWT_TOKEN is not in the environment, no
\* network call is ever made and the run ends having printed exactly
\* "Error: JWT_TOKEN not found in .env file", with exit code 1, whatever the
\* flags and whatever BASE_URL is.
C3_MissingJwtToken ==
    (OwuiRun /\ env.JWT_TOKEN = None)
      => /\ requests = <<>>
         /\ received = 0
         /\ Done => /\ out = <<Line("Error: JWT_TOKEN not found in .env file")>>
                    /\ exit_code = 1
                    /\ raised = "none"

\* JWT_TOKEN and BASE_URL both missing, --list-models given, the run over
C3_Witness ==
    /\ OwuiRun /\ Done
    /\ env.JWT_TOKEN = None /\ env.BASE_URL = None
    /\ argv.list_models

\* ------------------------------------------------------------------------ C4
\* C4 as stated: every run has, at its end, sent exactly one chat request and
\* received at most one response.
C4_ExactlyOneChatRequest ==
    Done => /\ Len(SelectSeq(requests, LAMBDA r : r.method \in {"POST", "invoke"})) = 1
            /\ received <= 1

\* the configuration is accepted: what each program checks before its call
OwuiAccepted ==
    /\ env.JWT_TOKEN # None
    /\ env.BASE_URL # None
    /\ argv.list_models \/ (~Falsy(argv.model) /\ ~Falsy(argv.prompt))
OllamaAccepted ==
    /\ ReachedConfigCheck
    /\ ~Falsy(ResolvedBaseUrl)
    /\ ~Falsy(ResolvedModel)

\* C4 amended: no run makes two outbound calls or receives more responses than
\* it made calls; a run that has ended made exactly one call if its
\* configuration was accepted (and, in the tracing variant, the client was
\* constructed) and none otherwise; the call is the chat call, or the listing
\* call under --list-models.
C4_AtMostOneRequest ==
    /\ Len(requests) <= 1
    /\ received <= Len(requests)
    /\ Done =>
         /\ Len(requests) = 1 <=>
              IF OwuiRun THEN OwuiAccepted
              ELSE OllamaAccepted /\ thrown_in # "construct"
         /\ Len(requests) = 1 =>
              requests[1].method =
                 IF OllamaRun THEN "invoke"
                 ELSE IF argv.list_models THEN "GET" ELSE "POST"

\* a chat run of the gateway variant that sent its one request and got its
\* one response
C4_Witness ==
    /\ OwuiRun /\ Done /\ ~argv.list_models
    /\ Len(requests) = 1 /\ received = 1 /\ exit_code = 0

\* ------------------------------------------------------------------------ C5
\* a run that ends on a missing setting or argument, a failed call or a
\* response of the wrong shape
OwuiErrorRun ==
    \/ env.JWT_TOKEN = None
    \/ env.BASE_URL = None
    \/ ~argv.list_models /\ (Falsy(argv.model) \/ Falsy(argv.prompt))
    \/ raised # "none"
    \/ GotJson /\ (IF argv.list_models THEN ListMalformed ELSE ChatMalformed)
OllamaErrorRun ==
    \/ ~ReachedConfigCheck
    \/ Falsy(ResolvedBaseUrl)
    \/ Falsy(ResolvedModel)
    \/ thrown_in # "none"

\* the tracing variant's required --prompt is not on the command line: the one
\* missing argument the claim does not name, left out of what is checked
PromptFlagMissing == OllamaRun /\ argv.prompt = None

\* C5: the exit code of a run is 1 when it ends on a missing setting or
\* argument, a failed outbound call or a response of the wrong shape, and 0
\* otherwise.
C5_ExitCodes ==
    (Done /\ ~PromptFlagMissing)
      => exit_code = IF (IF OwuiRun THEN OwuiErrorRun ELSE OllamaErrorRun) THEN 1 ELSE 0

\* ------------------------------------------------------------------------ C6
\* C6 as stated: a setting is there when the command line or the environment
\* gives it a value; the tracing run is rejected by the checks of __main__ if
\* and only if the base URL or the model is in neither.
C6_RejectedIffAbsent ==
    (OllamaRun /\ Done /\ ReachedConfigCheck)
      => ((BaseUrlRejected \/ ModelRejected)
            <=> \/ Falsy(argv.base_url) /\ Falsy(env.OLLAMA_BASE_URL)
                \/ Falsy(argv.model) /\ Falsy(env.DEFAULT_MODEL))

\* C6 amended: the resolved value is the flag's value when the flag is given,
\* even when it is given empty, and the environment's value otherwise; the run
\* is rejected, before any model call, if and only if a resolved value is
\* missing or empty (the base URL is reported first); a run whose flag is not
\* given is never rejected for a setting the environment sets to a non-empty
\* value.
C6_Resolution ==
    (OllamaRun /\ ReachedConfigCheck) =>
      /\ pc \notin {"module", "parse_args"} =>
           /\ args.base_url = ResolvedBaseUrl
           /\ args.model = ResolvedModel
      /\ Done =>
           /\ BaseUrlRejected <=> Falsy(ResolvedBaseUrl)
           /\ ModelRejected <=> ~Falsy(ResolvedBaseUrl) /\ Falsy(ResolvedModel)
           /\ (BaseUrlRejected \/ ModelRejected) => requests = <<>>
           /\ (argv.base_url = None /\ ~Falsy(env.OLLAMA_BASE_URL)) => ~BaseUrlRejected
           /\ (argv.model = None /\ ~Falsy(env.DEFAULT_MODEL)) => ~ModelRejected

\* --base-url given on the command line while the environment sets another
\* value, the model only in the environment, and the run went on to its call
C6_Witness ==
    /\ OllamaRun /\ Done
    /\ argv.base_url = "cli" /\ env.OLLAMA_BASE_URL = "env"
    /\ argv.model = None /\ env.DEFAULT_MODEL = "env"
    /\ args.base_url = "cli" /\ args.model = "env"
    /\ Len(requests) = 1

\* ------------------------------------------------------------------------ C7
\* the whitespace-delimited words of a text: one for each place where a
\* non-blank character starts the text or follows a blank
WordCount(t) ==
    Cardinality({i \in 1..Len(t) : t[i] # " " /\ (i = 1 \/ t[i - 1] = " ")})
Elapsed == end_time - start_time
Words == WordCount(response_data.choices[1].content)
RateIsZero == tokens_per_second.num = 0
RateIsPositive == tokens_per_second.num * tokens_per_second.den > 0
RateIsQuotient == tokens_per_second.num * Elapsed = Words * tokens_per_second.den

\* C7 as stated: the rate is never negative, it is 0 exactly when the elapsed
\* time is 0 or the text has no words, and otherwise it is positive and equal
\* to words / elapsed.
C7_ZeroIffNoTimeOrNoWords ==
    tokens_per_second.set =>
      /\ tokens_per_second.num * tokens_per_second.den >= 0
      /\ RateIsZero <=> (Elapsed = 0 \/ Words = 0)
      /\ ~(Elapsed = 0 \/ Words = 0) => (RateIsPositive /\ RateIsQuotient)

\* C7 amended: the rate the function computes is never negative, it is 0
\* exactly when the elapsed time is 0 or less (the end reading not after the
\* start reading) or the text has no words, and otherwise it is positive and
\* equal to words / elapsed.
C7_ZeroIffNoPositiveTimeOrNoWords ==
    tokens_per_second.set =>
      /\ tokens_per_second.den > 0
      /\ tokens_per_second.num >= 0
      /\ RateIsZero <=> (Elapsed <= 0 \/ Words = 0)
      /\ ~(Elapsed <= 0 \/ Words = 0) => (RateIsPositive /\ RateIsQuotient)

\* the clock went backwards across a call that returned a text with words
C7_Witness ==
    /\ tokens_per_second.set
    /\ end_time < start_time
    /\ Words > 0

\* ------------------------------------------------------------------------ C8
\* C8: in the tracing variant, once the construction of the client or
\* llm.invoke has raised, the outer span is never closed without the status
\* ERROR carrying the exception's message, the run ends with that same
\* exception going to the caller, and "Response:" is never printed.
C8_ErrorMarkedAndReraised ==
    (OllamaRun /\ thrown_in # "none") =>
      /\ spans["chat_with_model"].state = "closed" =>
           /\ spans["chat_with_model"].status = "ERROR"
           /\ spans["chat_with_model"].description = thrown
           /\ thrown \in ClientErrors \cup InvokeErrors
      /\ Done => (raised = thrown /\ exit_code = 1)
      /\ ~Printed("Response: {response}")

\* llm.invoke raised and the run is over
C8_Witness ==
    /\ OllamaRun /\ Done /\ thrown_in = "invoke"
    /\ spans["chat_with_model"].status = "ERROR"

\* ------------------------------------------------------------------------ C9
\* C9: in the gateway variant's chat mode with --debug, a malformed response
\* has its raw payload printed before any line that reports the response
\* format, and the run ends with a non-zero exit status. Stated for the
\* payloads without a non-empty 'choices', which reach the end of main; those
\* whose choices[0] lacks a field end in chat_with_model (see C2).
C9_DebugBeforeError ==
    (OwuiRun /\ ~args.list_models /\ args.debug /\ GotJson /\ ~HasChoices(response_data))
      => /\ \A j \in 1..Len(out) :
              out[j].line \in FormatErrors
                => \E i \in 1..(j - 1) : out[i].line = "Debug - Full response:"
         /\ Done => (exit_code # 0 /\ Printed("Debug - Full response:"))

\* ----------------------------------------------------------------------- C10
\* the label the listing owes a descriptor: its parameter size, or
\* "unknown size" when the size is missing at any level
OwedLabel(d) ==
    IF d.meta \in {"no_ollama", "no_details", "no_parameter_size"}
    THEN "unknown size"
    ELSE d.meta

\* C10: in list mode, a run that received a 'data' array ends having printed
\* one line for each descriptor, in order, with the descriptor's id and its
\* label, and without an unhandled exception.
C10_ListingComplete ==
    (OwuiRun /\ Done /\ args.list_models /\ GotJson /\ models.has_data)
      => /\ raised = "none"
         /\ SelectSeq(out, LAMBDA l : l.line = "- {id} ({size})") =
              [i \in 1..Len(models.data) |->
                 ModelLine(models.data[i].id, OwedLabel(models.data[i]))]

====
